---- MODULE Spec2Model ----
(***************************************************************************)
(* VineTracker add-on: the orders table in SQLite, the request handlers of *)
(* index.js that read and write it (getOrders, the spreadsheet upload, the *)
(* three point updates) and the schema migration of migrate.js.            *)
(*                                                                         *)
(* Encodings.  A nullable SQL or JavaScript value is a set: {} is          *)
(* NULL/undefined and {v} is the value v.  Text is a tuple of one-character*)
(* strings.  Money (etv) is a whole number; etvFactor is held in           *)
(* hundredths (20 is 0.2, 100 is 1), so etv * etvFactor is in hundredths   *)
(* as well.  A JavaScript Date is its time value, [day, ms]: days since    *)
(* 1 January of MinYear and milliseconds into that day; the process runs *)
(* with local time equal to UTC.  Date.toISOString is the tuple of the     *)
(* fields of the ISO text, <<year, month, day, h, min, s, ms>>, and SQLite *)
(* compares two such texts field by field, as it compares the zero-padded  *)
(* strings character by character.                                         *)
(***************************************************************************)
EXTENDS Integers, Sequences, FiniteSets, TLC

VARIABLES tableExists, columns, userVersion, rows, resp

vars == <<tableExists, columns, userVersion, rows, resp>>

Null == {}

Some(v) == {v}

IsNull(x) == x = {}

Val(x) == CHOOSE v \in x : TRUE

(***************************************************************************)
(* Dates                                                                   *)
(***************************************************************************)
\* the first year a Date of the model can lie in (day 0 is its 1 January)
MinYear == 2022

IsLeap(y) == (y % 4 = 0 /\ y % 100 # 0) \/ y % 400 = 0

DaysInYear(y) == IF IsLeap(y) THEN 366 ELSE 365

\* month is the 0-based month index, as in the Date API
DaysInMonth(y, month) ==
    CASE month = 1 -> IF IsLeap(y) THEN 29 ELSE 28
      [] month \in {3, 5, 8, 10} -> 30
      [] OTHER -> 31

RECURSIVE DaysBeforeYear(_)
DaysBeforeYear(y) ==
    IF y <= MinYear THEN 0 ELSE DaysInYear(y - 1) + DaysBeforeYear(y - 1)

RECURSIVE DaysBeforeMonth(_, _)
DaysBeforeMonth(y, month) ==
    IF month = 0 THEN 0 ELSE DaysInMonth(y, month - 1) + DaysBeforeMonth(y, month - 1)

\* ECMAScript MakeDay: the month index may exceed 11 and the day of the month
\* may exceed the month's length; both carry over.
MakeDay(y, month, date) ==
    LET ym == y + (month \div 12)
        mn == month % 12
    IN  DaysBeforeYear(ym) + DaysBeforeMonth(ym, mn) + date - 1

MakeTime(h, mi, s, ms) == ((h * 60 + mi) * 60 + s) * 1000 + ms

\* new Date(y, month, date, h, mi, s, ms)
NewDate(y, month, date, h, mi, s, ms) ==
    [day |-> MakeDay(y, month, date), ms |-> MakeTime(h, mi, s, ms)]

RECURSIVE YearFromDay(_, _)
YearFromDay(day, y) ==
    IF day < DaysInYear(y) THEN <<y, day>> ELSE YearFromDay(day - DaysInYear(y), y + 1)

RECURSIVE MonthFromDay(_, _, _)
MonthFromDay(y, dayInYear, month) ==
    IF dayInYear < DaysInMonth(y, month) THEN <<month, dayInYear>>
    ELSE MonthFromDay(y, dayInYear - DaysInMonth(y, month), month + 1)

\* <<year, month index, day of the month>> of a Date
YearMonthDate(dt) ==
    LET yd == YearFromDay(dt.day, MinYear)
        md == MonthFromDay(yd[1], yd[2], 0)
    IN  <<yd[1], md[1], md[2] + 1>>

GetFullYear(dt) == YearMonthDate(dt)[1]

GetMonth(dt) == YearMonthDate(dt)[2]

\* dt.setMonth(month, date): the year and the time of day are kept
SetMonth(dt, month, date) == [dt EXCEPT !.day = MakeDay(GetFullYear(dt), month, date)]

\* dt.setFullYear(y, month, date): the time of day is kept
SetFullYear(dt, y, month, date) == [dt EXCEPT !.day = MakeDay(y, month, date)]

\* dt.setHours(h, mi, s, ms): the day is kept
SetHours(dt, h, mi, s, ms) == [dt EXCEPT !.ms = MakeTime(h, mi, s, ms)]

\* dt.toISOString(): the fields of "YYYY-MM-DDTHH:mm:ss.sssZ"
ToISOString(dt) ==
    LET ymd == YearMonthDate(dt)
    IN  <<ymd[1], ymd[2] + 1, ymd[3],
          dt.ms \div 3600000, (dt.ms \div 60000) % 60, (dt.ms \div 1000) % 60, dt.ms % 1000>>

RECURSIVE TextLeqFrom(_, _, _)
TextLeqFrom(a, b, i) ==
    IF i > Len(a) THEN TRUE
    ELSE IF a[i] < b[i] THEN TRUE
    ELSE IF a[i] > b[i] THEN FALSE
    ELSE TextLeqFrom(a, b, i + 1)

\* SQLite's comparison a <= b of two ISO texts
IsoLeq(a, b) == TextLeqFrom(a, b, 1)

(***************************************************************************)
(* Text                                                                    *)
(***************************************************************************)
Digits == {"0", "1", "2", "3", "4", "5", "6", "7", "8", "9"}

DigitVal(c) ==
    CASE c = "0" -> 0 [] c = "1" -> 1 [] c = "2" -> 2 [] c = "3" -> 3 [] c = "4" -> 4
      [] c = "5" -> 5 [] c = "6" -> 6 [] c = "7" -> 7 [] c = "8" -> 8 [] c = "9" -> 9

\* ASCII lower-casing, over the letters the model's texts use
Lower(c) ==
    CASE c = "A" -> "a" [] c = "B" -> "b" [] c = "C" -> "c" [] OTHER -> c

RECURSIVE LikeFrom(_, _, _, _)
\* SQLite's LIKE: % matches any run of characters, _ any one character, any
\* other character itself, ASCII letters without regard to case
LikeFrom(pat, i, str, j) ==
    IF i > Len(pat) THEN j > Len(str)
    ELSE IF pat[i] = "%"
         THEN \E k \in j..(Len(str) + 1) : LikeFrom(pat, i + 1, str, k)
    ELSE IF j > Len(str) THEN FALSE
    ELSE IF pat[i] = "_" \/ Lower(pat[i]) = Lower(str[j])
         THEN LikeFrom(pat, i + 1, str, j + 1)
    ELSE FALSE

Like(str, pat) == LikeFrom(pat, 1, str, 1)

\* /^\d{4}-\d{2}-\d{2}$/.test(s)
IsDateShaped(s) ==
    /\ Len(s) = 10
    /\ \A i \in {1, 2, 3, 4, 6, 7, 9, 10} : s[i] \in Digits
    /\ s[5] = "-"
    /\ s[8] = "-"

RECURSIVE ParseDigits(_, _)
ParseDigits(s, acc) ==
    IF s = <<>> \/ Head(s) \notin Digits THEN acc
    ELSE ParseDigits(Tail(s), acc * 10 + DigitVal(Head(s)))

\* safeParseInt on a string: undefined for the empty string and for a string
\* that starts with no digit, else parseInt(value, 10)
safeParseInt(value) ==
    IF value = <<>> THEN Null
    ELSE IF Head(value) \notin Digits THEN Null
    ELSE Some(ParseDigits(value, 0))

\* JavaScript's !x for a number | undefined
Falsy(x) == IsNull(x) \/ Val(x) = 0

(***************************************************************************)
(* getOrders                                                               *)
(***************************************************************************)
\* new Date(isoText), the ISO text being one that toISOString wrote
DateFromISO(t) == NewDate(t[1], t[2] - 1, t[3], t[4], t[5], t[6], t[7])

RECURSIVE DaysFrom1970(_)
DaysFrom1970(y) == IF y <= 1970 THEN 0 ELSE DaysInYear(y - 1) + DaysFrom1970(y - 1)

\* new Date(null): the time value 0, 1 January 1970
DateOfNull == [day |-> 0 - DaysFrom1970(MinYear), ms |-> 0]

Thrown(msg) == [kind |-> "throw", error |-> msg, count |-> 0, orders |-> <<>>]

Counted(n) == [kind |-> "count", error |-> "", count |-> n, orders |-> <<>>]

Listed(os) == [kind |-> "rows", error |-> "", count |-> 0, orders |-> os]

\* the start of the date range with the year bound taking precedence over the
\* searched day
StartDateOfYear(o) ==
    IF ~Falsy(o.year)
    THEN Some(ToISOString(NewDate(Val(o.year), 0, 1, 0, 0, 0, 0)))
    ELSE IF ~IsNull(o.search) /\ Val(o.search) # <<>> /\ IsDateShaped(Val(o.search))
    THEN LET s == Val(o.search)
             y == Val(safeParseInt(SubSeq(s, 1, 4)))
             m == Val(safeParseInt(SubSeq(s, 6, 7)))
             d == Val(safeParseInt(SubSeq(s, 9, 10)))
             dt == SetHours(SetFullYear(NewDate(MinYear, 0, 1, 0, 0, 0, 0), y, m - 1, d), 0, 0, 0, 0)
         IN  Some(ToISOString(dt))
    ELSE Null

\* the start of the date range: the year's, replaced by the searched day's
StartDate(o) ==
    IF ~IsNull(o.search) /\ Val(o.search) # <<>> /\ IsDateShaped(Val(o.search))
    THEN LET s == Val(o.search)
             y == Val(safeParseInt(SubSeq(s, 1, 4)))
             m == Val(safeParseInt(SubSeq(s, 6, 7)))
             d == Val(safeParseInt(SubSeq(s, 9, 10)))
             dt == SetHours(SetFullYear(NewDate(MinYear, 0, 1, 0, 0, 0, 0), y, m - 1, d), 0, 0, 0, 0)
         IN  Some(ToISOString(dt))
    ELSE IF ~Falsy(o.year)
    THEN Some(ToISOString(NewDate(Val(o.year), 0, 1, 0, 0, 0, 0)))
    ELSE Null

\* the end of the date range
EndDate(o) ==
    IF ~IsNull(o.search) /\ Val(o.search) # <<>> /\ IsDateShaped(Val(o.search))
    THEN LET s == Val(o.search)
             y == Val(safeParseInt(SubSeq(s, 1, 4)))
             m == Val(safeParseInt(SubSeq(s, 6, 7)))
             d == Val(safeParseInt(SubSeq(s, 9, 10)))
             dt == SetHours(SetFullYear(NewDate(MinYear, 0, 1, 0, 0, 0, 0), y, m - 1, d), 23, 59, 59, 999)
         IN  Some(ToISOString(dt))
    ELSE IF ~Falsy(o.year)
    THEN LET dt == NewDate(Val(o.year), 0, 1, 0, 0, 0, 0)
         IN  Some(ToISOString(SetHours(SetMonth(dt, 11, 31), 11, 59, 59, 999)))
    ELSE Null

\* the LIKE pattern: '%' + search + '%' for a search that is no date
Keyword(o) ==
    IF ~IsNull(o.search) /\ Val(o.search) # <<>> /\ ~IsDateShaped(Val(o.search))
    THEN Some(<<"%">> \o Val(o.search) \o <<"%">>)
    ELSE Null

\* the search is a date whose year, month or day parses to 0
InvalidDate(o) ==
    /\ ~IsNull(o.search)
    /\ Val(o.search) # <<>>
    /\ IsDateShaped(Val(o.search))
    /\ LET s == Val(o.search)
       IN  \/ Falsy(safeParseInt(SubSeq(s, 1, 4)))
           \/ Falsy(safeParseInt(SubSeq(s, 6, 7)))
           \/ Falsy(safeParseInt(SubSeq(s, 9, 10)))

\* the date column of a row the range is applied to
DateAxis(r, o) == IF o.byDelivered THEN r.deliveredAt ELSE Some(r.orderedAt)

\* the nonAdjustedOnly clause without its test of etvReason
NonAdjustedWhateverReason(r) ==
    /\ r.etv # 0
    /\ \/ IsNull(r.etvFactor)
       \/ /\ Val(r.etvFactor) # 20
          /\ Val(r.etvFactor) # 100

\* the nonAdjustedOnly clause of the WHERE
NonAdjusted(r) ==
    /\ r.etv # 0
    /\ \/ IsNull(r.etvFactor)
       \/ /\ ~IsNull(r.etvFactor)
          /\ Val(r.etvFactor) # 20
          /\ Val(r.etvFactor) # 100
          /\ IsNull(r.etvReason)

\* the WHERE clause with :cancelled bound to 0 whatever the option says
WhereNotCancelled(r, o, keyword, startDate, endDate) ==
    /\ r.cancelled = Some(0)
    /\ IsNull(keyword) \/ Like(r.number, Val(keyword))
                       \/ Like(r.asin, Val(keyword))
                       \/ Like(r.product, Val(keyword))
    /\ IsNull(startDate) \/ (~IsNull(DateAxis(r, o)) /\ IsoLeq(Val(startDate), Val(DateAxis(r, o))))
    /\ IsNull(endDate) \/ (~IsNull(DateAxis(r, o)) /\ IsoLeq(Val(DateAxis(r, o)), Val(endDate)))
    /\ o.nonAdjustedOnly => NonAdjusted(r)

\* the WHERE clause on one row, keyword, startDate and endDate being the bound
\* parameters; a comparison with NULL is not true
Where(r, o, keyword, startDate, endDate) ==
    /\ r.cancelled = Some(IF o.cancelled THEN 1 ELSE 0)
    /\ IsNull(keyword) \/ Like(r.number, Val(keyword))
                       \/ Like(r.asin, Val(keyword))
                       \/ Like(r.product, Val(keyword))
    /\ IsNull(startDate) \/ (~IsNull(DateAxis(r, o)) /\ IsoLeq(Val(startDate), Val(DateAxis(r, o))))
    /\ IsNull(endDate) \/ (~IsNull(DateAxis(r, o)) /\ IsoLeq(Val(DateAxis(r, o)), Val(endDate)))
    /\ o.nonAdjustedOnly => NonAdjusted(r)

\* the numbers of the stored rows the statement selects
Selected(rws, o) ==
    LET keyword == Keyword(o)
        startDate == StartDate(o)
        endDate == EndDate(o)
    IN  {n \in DOMAIN rws : Where(rws[n], o, keyword, startDate, endDate)}

\* etv * COALESCE(etvFactor, 0) AS adjustedEtv
AdjustedEtv(r) == r.etv * (IF IsNull(r.etvFactor) THEN 0 ELSE Val(r.etvFactor))

\* the column of the ORDER BY: sort when it is one of the three, else orderedAt
SortCol(o) ==
    IF ~o.countOnly /\ ~IsNull(o.sort) /\ Val(o.sort) \in {"etv", "etvFactor", "adjustedEtv"}
    THEN Val(o.sort) ELSE "orderedAt"

SortDir(o) == IF o.countOnly THEN "ASC" ELSE IF o.dir = Some("asc") THEN "ASC" ELSE "DESC"

\* a <= b on the sort column, in SQLite's order: NULL before every value
KeyLeq(col, a, b) ==
    CASE col = "orderedAt" -> IsoLeq(a.orderedAt, b.orderedAt)
      [] col = "etv" -> a.etv <= b.etv
      [] col = "adjustedEtv" -> AdjustedEtv(a) <= AdjustedEtv(b)
      [] col = "etvFactor" ->
            \/ IsNull(a.etvFactor)
            \/ ~IsNull(b.etvFactor) /\ Val(a.etvFactor) <= Val(b.etvFactor)

\* every order ORDER BY col dir may return the rows of S in: rows with equal
\* keys come in an order SQLite leaves open
RECURSIVE Ordered(_, _, _)
Ordered(S, col, dir) ==
    IF S = {} THEN {<<>>}
    ELSE LET first == {x \in S : \A y \in S : IF dir = "ASC" THEN KeyLeq(col, x, y)
                                                ELSE KeyLeq(col, y, x)}
         IN  UNION {{<<x>> \o q : q \in Ordered(S \ {x}, col, dir)} : x \in first}

\* LIMIT and OFFSET on a result; an absent LIMIT keeps everything
Paginate(q, o) ==
    LET off == IF IsNull(o.offset) THEN 0 ELSE Val(o.offset)
        rest == SubSeq(q, off + 1, Len(q))
    IN  IF IsNull(o.limit) THEN rest
        ELSE SubSeq(rest, 1, IF Val(o.limit) < Len(rest) THEN Val(o.limit) ELSE Len(rest))

\* Convert a SQL row to an Order
toOrder(r) ==
    [number |-> r.number,
     asin |-> r.asin,
     product |-> r.product,
     orderedAt |-> DateFromISO(r.orderedAt),
     deliveredAt |-> IF IsNull(r.deliveredAt) THEN DateOfNull ELSE DateFromISO(Val(r.deliveredAt)),
     etv |-> r.etv,
     etvFactor |-> r.etvFactor,
     cancelled |-> r.cancelled = Some(1),
     etvReason |-> r.etvReason]

MapToOrder(q) == [i \in 1..Len(q) |-> toOrder(q[i])]

\* COUNT(deliveredAt) in place of COUNT(1): rows without a delivery date are not counted
RowCountOfDelivered(rws, o) ==
    Cardinality({n \in Selected(rws, o) : ~IsNull(rws[n].deliveredAt)})

\* COUNT(1) over the rows the WHERE keeps
RowCount(rws, o) == Cardinality(Selected(rws, o))

\* db.prepare(...) fails: OFFSET without LIMIT is no SQL, and the statement
\* names the table orders and its column cancelled
PrepareError(cols, o) ==
    IF IsNull(o.limit) /\ ~IsNull(o.offset) THEN Some("near \"OFFSET\": syntax error")
    ELSE IF cols = {} THEN Some("no such table: orders")
    ELSE IF "cancelled" \notin cols THEN Some("no such column: cancelled")
    ELSE Null

\* every outcome getOrders(o) can have on the table (cols, rws)
getOrders(cols, rws, o) ==
    IF InvalidDate(o) THEN {Thrown("Invalid date")}
    ELSE IF ~IsNull(PrepareError(cols, o)) THEN {Thrown(Val(PrepareError(cols, o)))}
    ELSE IF o.countOnly
    THEN LET result == Paginate(<<RowCount(rws, o)>>, o)
         IN  {Counted(IF result = <<>> THEN 0 ELSE result[1])}
    ELSE LET S == {rws[n] : n \in Selected(rws, o)}
         IN  {Listed(MapToOrder(Paginate(q, o))) : q \in Ordered(S, SortCol(o), SortDir(o))}

(***************************************************************************)
(* The spreadsheet rows an upload can hold                                 *)
(***************************************************************************)
\* a cell of the sheet's Shipped Date column, after String(cell).trim()
ShippedBlank == <<>>

\* String(undefined): the row has no Shipped Date cell
ShippedMissing == <<"u", "n", "d", "e", "f", "i", "n", "e", "d">>

SheetRow(number, asin, product, type, orderedAt, shipped, etv, etvFactor) ==
    [number |-> number, asin |-> asin, product |-> product, type |-> type,
     orderedAt |-> orderedAt, shipped |-> shipped, etv |-> etv, etvFactor |-> etvFactor]

\* The sheet rows of the model.  orderedAt is new Date(orderedAtStr); shipped
\* is [str, date]: the trimmed cell text and, for a text that parses, its Date.
Row7 ==
    SheetRow(<<"7">>, <<"B", "1">>, <<"a", "b">>, <<"O">>,
             NewDate(2023, 11, 31, 22, 0, 0, 0),
             [str |-> <<"d">>, date |-> NewDate(2024, 0, 2, 10, 0, 0, 0)], 10, Null)

Row7Again ==
    SheetRow(<<"7">>, <<"B", "4">>, <<"c">>, <<"O">>,
             NewDate(2024, 11, 31, 11, 59, 59, 999),
             [str |-> <<"d">>, date |-> NewDate(2024, 11, 31, 23, 59, 59, 999)], 25, Some(100))

Row8 ==
    SheetRow(<<"8">>, <<"B", "2">>, <<"B", "c">>, <<"O">>,
             NewDate(2024, 11, 31, 15, 0, 0, 0),
             [str |-> ShippedBlank, date |-> NewDate(MinYear, 0, 1, 0, 0, 0, 0)], 25, Some(50))

Row9 ==
    SheetRow(<<"9">>, <<"C", "3">>, <<"c", "a">>, <<"O">>,
             NewDate(2024, 5, 15, 8, 30, 0, 0),
             [str |-> <<"d">>, date |-> NewDate(2025, 0, 1, 0, 0, 0, 0)], 0, Some(50))

Row9Unshipped ==
    SheetRow(<<"9">>, <<"C", "3">>, <<"c", "a">>, <<"O">>,
             NewDate(2024, 5, 15, 8, 30, 0, 0),
             [str |-> ShippedMissing, date |-> NewDate(MinYear, 0, 1, 0, 0, 0, 0)], 0, Some(50))

Cancellation(number) ==
    SheetRow(number, <<>>, <<>>, <<"C", "A", "N", "C", "E", "L", "L", "A", "T", "I", "O", "N">>,
             NewDate(2024, 0, 1, 0, 0, 0, 0),
             [str |-> ShippedMissing, date |-> NewDate(MinYear, 0, 1, 0, 0, 0, 0)], 0, Null)

\* a row whose Order Number starts with no digit
RowNoNumber ==
    SheetRow(<<"x">>, <<"B", "1">>, <<"a">>, <<"O">>, NewDate(2024, 0, 1, 0, 0, 0, 0),
             [str |-> <<"d">>, date |-> NewDate(2024, 0, 1, 0, 0, 0, 0)], 10, Null)

Cancel7 == Cancellation(<<"7">>)

Cancel8 == Cancellation(<<"8">>)

\* the most rows one uploaded sheet holds
MaxLines == 2

\* The uploaded sheets: every row alone, the pairs of rows that name one order
\* in both orders, and sheets with a row that is skipped or that throws.  Rows
\* of different orders in one sheet leave what two uploads leave.
SheetCatalogue ==
    {<<>>,
     <<Row7>>, <<Row7Again>>, <<Row8>>, <<Row9>>, <<Cancel7>>, <<Cancel8>>,
     <<Row9Unshipped>>, <<RowNoNumber>>,
     <<Row7, Cancel7>>, <<Cancel7, Row7>>, <<Row7, Row7Again>>, <<Row7Again, Row7>>,
     <<Row8, Cancel8>>, <<Cancel8, Row8>>, <<Cancel7, Cancel8>>, <<Row8, Row9>>,
     <<Row8, Row9Unshipped>>, <<Row9Unshipped, Row8>>, <<Cancel8, Row9Unshipped>>,
     <<RowNoNumber, Row9>>,
     <<Cancel7, Row7, Row7Again>>, <<Row7Again, Cancel7, Row7>>,
     <<Row8, Cancel8, Row9Unshipped>>, <<Row7, Row8, Row9>>,
     <<Row7, Row8, Row9, Cancel7>>}

Sheets == {sheet \in SheetCatalogue : Len(sheet) <= MaxLines}

\* xlsxParse: the rows with an order number that starts with a digit
xlsxParse(sheet) ==
    SelectSeq(sheet, LAMBDA row : row.number # <<>> /\ Head(row.number) \in Digits)

(***************************************************************************)
(* The table and the statements that write it                              *)
(***************************************************************************)
\* the columns of CREATE TABLE IF NOT EXISTS orders
CreatedColumns ==
    {"number", "asin", "product", "orderedAt", "deliveredAt", "etv", "etvFactor",
     "cancelled", "etvReason", "notes"}

NoRows == [n \in {} |-> {}]

\* what a statement that names the column cancelled does on a table without it
NoCancelledColumn == "table orders has no column named cancelled"

\* INSERT ... ON CONFLICT(number) DO UPDATE SET cancelled = 0: a line of a
\* stored number marks its order as not cancelled
maybeInsertOrRestoreOrder(cols, rws, line) ==
    IF "cancelled" \notin cols THEN [rows |-> rws, error |-> Some(NoCancelledColumn)]
    ELSE IF line.shipped.str = ShippedMissing
    THEN [rows |-> rws, error |-> Some("Invalid time value")]
    ELSE [rows |->
            [n \in DOMAIN rws \cup {line.number} |->
               IF n # line.number THEN rws[n]
               ELSE IF n \in DOMAIN rws THEN [rws[n] EXCEPT !.cancelled = Some(0)]
               ELSE [number |-> line.number,
                     asin |-> line.asin,
                     product |-> line.product,
                     orderedAt |-> ToISOString(line.orderedAt),
                     deliveredAt |-> IF line.shipped.str = <<>> THEN Null
                                     ELSE Some(ToISOString(line.shipped.date)),
                     etv |-> line.etv,
                     etvFactor |-> line.etvFactor,
                     cancelled |-> Some(0),
                     cancelledAt |-> Null,
                     etvReason |-> Null,
                     notes |-> Null]],
          error |-> Null]

\* INSERT OR REPLACE in place of INSERT OR IGNORE: a stored number is overwritten
maybeInsertOrReplaceOrder(cols, rws, line) ==
    IF "cancelled" \notin cols THEN [rows |-> rws, error |-> Some(NoCancelledColumn)]
    ELSE IF line.shipped.str = ShippedMissing
    THEN [rows |-> rws, error |-> Some("Invalid time value")]
    ELSE [rows |->
            [n \in DOMAIN rws \cup {line.number} |->
               IF n # line.number THEN rws[n]
               ELSE [number |-> line.number,
                     asin |-> line.asin,
                     product |-> line.product,
                     orderedAt |-> ToISOString(line.orderedAt),
                     deliveredAt |-> IF line.shipped.str = <<>> THEN Null
                                     ELSE Some(ToISOString(line.shipped.date)),
                     etv |-> line.etv,
                     etvFactor |-> line.etvFactor,
                     cancelled |-> Some(0),
                     cancelledAt |-> Null,
                     etvReason |-> Null,
                     notes |-> Null]],
          error |-> Null]

\* maybeInsertOrder: [rows, error].  prepare fails on a table without the
\* column; toISOString throws on an Invalid Date; INSERT OR IGNORE leaves a
\* stored number alone.
maybeInsertOrder(cols, rws, line) ==
    IF "cancelled" \notin cols THEN [rows |-> rws, error |-> Some(NoCancelledColumn)]
    ELSE IF line.shipped.str = ShippedMissing
    THEN [rows |-> rws, error |-> Some("Invalid time value")]
    ELSE IF line.number \in DOMAIN rws THEN [rows |-> rws, error |-> Null]
    ELSE [rows |->
            [n \in DOMAIN rws \cup {line.number} |->
               IF n \in DOMAIN rws THEN rws[n]
               ELSE [number |-> line.number,
                     asin |-> line.asin,
                     product |-> line.product,
                     orderedAt |-> ToISOString(line.orderedAt),
                     deliveredAt |-> IF line.shipped.str = <<>> THEN Null
                                     ELSE Some(ToISOString(line.shipped.date)),
                     etv |-> line.etv,
                     etvFactor |-> line.etvFactor,
                     cancelled |-> Some(0),
                     cancelledAt |-> Null,
                     etvReason |-> Null,
                     notes |-> Null]],
          error |-> Null]

IsCancellation(line) == line.type = <<"C", "A", "N", "C", "E", "L", "L", "A", "T", "I", "O", "N">>

RECURSIVE InsertLinesCancellingAtOnce(_, _, _, _, _)
\* the loop with the UPDATE of a cancellation run where its line stands
InsertLinesCancellingAtOnce(cols, rws, lines, cancellations, inserted) ==
    IF lines = <<>>
    THEN [rows |-> rws, cancellations |-> cancellations, inserted |-> inserted, error |-> Null]
    ELSE IF IsCancellation(Head(lines))
    THEN InsertLinesCancellingAtOnce(
             cols,
             [n \in DOMAIN rws |->
                IF n = Head(lines).number THEN [rws[n] EXCEPT !.cancelled = Some(1)] ELSE rws[n]],
             Tail(lines), cancellations, inserted)
    ELSE LET r == maybeInsertOrder(cols, rws, Head(lines))
         IN  IF ~IsNull(r.error)
             THEN [rows |-> r.rows, cancellations |-> cancellations, inserted |-> inserted,
                   error |-> r.error]
             ELSE InsertLinesCancellingAtOnce(cols, r.rows, Tail(lines), cancellations, inserted + 1)

RECURSIVE InsertLines(_, _, _, _, _)
\* the first loop of the upload: [rows, cancellations, inserted, error]
InsertLines(cols, rws, lines, cancellations, inserted) ==
    IF lines = <<>>
    THEN [rows |-> rws, cancellations |-> cancellations, inserted |-> inserted, error |-> Null]
    ELSE IF IsCancellation(Head(lines))
    THEN InsertLines(cols, rws, Tail(lines), Append(cancellations, Head(lines).number), inserted)
    ELSE LET r == maybeInsertOrder(cols, rws, Head(lines))
         IN  IF ~IsNull(r.error)
             THEN [rows |-> r.rows, cancellations |-> cancellations, inserted |-> inserted,
                   error |-> r.error]
             ELSE InsertLines(cols, r.rows, Tail(lines), cancellations, inserted + 1)

\* the UPDATE of a cancellation with a WHERE that matches no row
CancelNoOrder(rws, number) == rws

\* UPDATE orders SET cancelled = 1 WHERE number = ?
CancelOrder(rws, number) ==
    [n \in DOMAIN rws |-> IF n = number THEN [rws[n] EXCEPT !.cancelled = Some(1)] ELSE rws[n]]

RECURSIVE CancelAll(_, _)
CancelAll(rws, cancellations) ==
    IF cancellations = <<>> THEN rws
    ELSE CancelAll(CancelOrder(rws, Head(cancellations)), Tail(cancellations))

\* UPDATE orders SET etv = ? WHERE number = ?: the factor written to the etv column
setETVForOrder(rws, number, etvFactor) ==
    [n \in DOMAIN rws |->
       IF n = number THEN [rws[n] EXCEPT !.etv = IF IsNull(etvFactor) THEN 0 ELSE Val(etvFactor)]
       ELSE rws[n]]

\* UPDATE orders SET etvFactor = ? WHERE number = ?
setETVFactorForOrder(rws, number, etvFactor) ==
    [n \in DOMAIN rws |-> IF n = number THEN [rws[n] EXCEPT !.etvFactor = etvFactor] ELSE rws[n]]

\* UPDATE orders SET etvReason = ? WHERE number = ? with the reason as it comes
setETVReasonVerbatim(rws, number, reason) ==
    [n \in DOMAIN rws |-> IF n = number THEN [rws[n] EXCEPT !.etvReason = Some(reason)] ELSE rws[n]]

\* UPDATE orders SET etvReason = ? WHERE number = ?, '' stored as NULL
setETVReasonForOrder(rws, number, reason) ==
    LET stored == IF reason = <<>> THEN Null ELSE Some(reason)
    IN  [n \in DOMAIN rws |-> IF n = number THEN [rws[n] EXCEPT !.etvReason = stored] ELSE rws[n]]

\* UPDATE orders SET notes = ? without the WHERE
setNotesForAllOrders(rws, number, notes) ==
    [n \in DOMAIN rws |-> [rws[n] EXCEPT !.notes = Some(notes)]]

\* UPDATE orders SET notes = ? WHERE number = ?
setNotesForOrder(rws, number, notes) ==
    [n \in DOMAIN rws |-> IF n = number THEN [rws[n] EXCEPT !.notes = Some(notes)] ELSE rws[n]]

(***************************************************************************)
(* The reports                                                             *)
(***************************************************************************)
RECURSIVE SumEtv(_)
\* orders.reduce((sum, o) => sum + o.etv, 0), in hundredths
SumEtv(os) == IF os = <<>> THEN 0 ELSE 100 * Head(os).etv + SumEtv(Tail(os))

RECURSIVE SumAdjustedEtv(_)
\* orders.reduce((sum, o) => sum + (o.etvFactor !== null ? o.etv * o.etvFactor : o.etv), 0)
SumAdjustedEtv(os) ==
    IF os = <<>> THEN 0
    ELSE (IF ~IsNull(Head(os).etvFactor) THEN Head(os).etv * Val(Head(os).etvFactor)
          ELSE 100 * Head(os).etv) + SumAdjustedEtv(Tail(os))

\* the buckets filled by comparing getMonth(), which counts from 0, with the
\* month number that counts from 1
getMonthlyBreakdownFromOne(orders) ==
    [m \in 1..12 |->
       LET ordersForMonth == SelectSeq(orders, LAMBDA o : GetMonth(o.orderedAt) = m)
       IN  [month |-> m,
            orderCount |-> Len(ordersForMonth),
            totalEtv |-> SumEtv(ordersForMonth),
            totalAdjustedEtv |-> SumAdjustedEtv(ordersForMonth)]]

getMonthlyBreakdown(orders) ==
    [m \in 1..12 |->
       LET ordersForMonth == SelectSeq(orders, LAMBDA o : GetMonth(o.orderedAt) = m - 1)
       IN  [month |-> m,
            orderCount |-> Len(ordersForMonth),
            totalEtv |-> SumEtv(ordersForMonth),
            totalAdjustedEtv |-> SumAdjustedEtv(ordersForMonth)]]

(***************************************************************************)
(* The requests                                                            *)
(***************************************************************************)
Options(cancelled, nonAdjustedOnly, limit, offset, search, year, countOnly, sort, dir, byDelivered) ==
    [cancelled |-> cancelled, nonAdjustedOnly |-> nonAdjustedOnly, limit |-> limit,
     offset |-> offset, search |-> search, year |-> year, countOnly |-> countOnly,
     sort |-> sort, dir |-> dir, byDelivered |-> byDelivered]

\* search strings of the shape YYYY-MM-DD
Date20241231 == <<"2", "0", "2", "4", "-", "1", "2", "-", "3", "1">>

Date20240615 == <<"2", "0", "2", "4", "-", "0", "6", "-", "1", "5">>

\* month 00 and day 00: the month or the day parses to 0
Date20240010 == <<"2", "0", "2", "4", "-", "0", "0", "-", "1", "0">>

Date20240600 == <<"2", "0", "2", "4", "-", "0", "6", "-", "0", "0">>

\* month 13 and day 32: no calendar dates
Date20241301 == <<"2", "0", "2", "4", "-", "1", "3", "-", "0", "1">>

Date20240532 == <<"2", "0", "2", "4", "-", "0", "5", "-", "3", "2">>

QueryString(filter, limit, offset, s, sort, dir) ==
    [filter |-> filter, limit |-> limit, offset |-> offset, s |-> s, sort |-> sort, dir |-> dir]

\* the query strings of GET /orders; a parameter that is not sent is empty
OrdersQueries ==
    {QueryString("", <<>>, <<>>, <<>>, "", ""),
     QueryString("", <<"1">>, <<>>, <<>>, "", ""),
     QueryString("", <<"2">>, <<"1">>, <<>>, "", "asc"),
     QueryString("", <<>>, <<"1">>, <<>>, "", ""),
     QueryString("", <<"0">>, <<>>, <<>>, "etv", ""),
     QueryString("", <<>>, <<>>, <<"b">>, "etv", "asc"),
     QueryString("", <<>>, <<>>, Date20241231, "", ""),
     QueryString("cancelled", <<>>, <<>>, <<>>, "", ""),
     QueryString("adjusted", <<>>, <<>>, <<>>, "", "")}

\* safeQsString: undefined for a missing or empty value
safeQsString(value) == IF value = "" THEN Null ELSE Some(value)

\* the years of GET /report-data/:year, after parseInt; {} is NaN
ReportYears == {Null, Some(2023), Some(2024)}

\* bodies of POST /orders/:number/etv: null, a number (hundredths), a string
EtvFactorBodies ==
    {[type |-> "null", v |-> 0], [type |-> "number", v |-> 20], [type |-> "number", v |-> 250],
     [type |-> "number", v |-> 100], [type |-> "number", v |-> 0 - 50], [type |-> "string", v |-> 0]}

MaxReasonLength == 255

MaxNotesLength == 2000

\* bodies of POST /orders/:number/etv-reason: a string, or a value of another type
ReasonBodies ==
    {[type |-> "string", v |-> <<>>], [type |-> "string", v |-> <<"r">>],
     [type |-> "string", v |-> [i \in 1..(MaxReasonLength + 1) |-> "r"]],
     [type |-> "number", v |-> <<>>]}

NotesBodies ==
    {[type |-> "string", v |-> <<"n">>],
     [type |-> "string", v |-> [i \in 1..(MaxNotesLength + 1) |-> "n"]],
     [type |-> "number", v |-> <<>>]}

\* the order numbers the point updates name: <<"5">> is never uploaded
EtvFactorNumbers == {<<"7">>, <<"5">>}

ReasonNumbers == {<<"8">>, <<"5">>}

NotesNumbers == {<<"9">>, <<"5">>}

NoBody == [query |-> QueryString("", <<>>, <<>>, <<>>, "", ""),
           orders |-> <<>>, total |-> 0, error |-> "",
           year |-> Null, totalEtv |-> 0, totalAdjustedEtv |-> 0, orderCount |-> 0,
           monthly |-> <<>>]

Response(req, status, body) == [req |-> req, status |-> status, body |-> body]

(***************************************************************************)
(* The process                                                             *)
(***************************************************************************)
Init ==
    /\ tableExists = FALSE
    /\ columns = {}
    /\ userVersion = 0
    /\ rows = NoRows
    /\ resp = Response("none", 0, NoBody)

\* the app.listen callback: db.open() and CREATE TABLE IF NOT EXISTS
Listen ==
    /\ ~tableExists
    /\ tableExists' = TRUE
    /\ columns' = CreatedColumns
    /\ resp' = Response("listen", 0, NoBody)
    /\ UNCHANGED <<userVersion, rows>>

\* POST /upload; the counts of the response body are left out
Upload(sheet) ==
    /\ tableExists
    /\ LET lines == xlsxParse(sheet)
           ins == InsertLines(columns, rows, lines, <<>>, 0)
       IN  IF ~IsNull(ins.error)
           THEN /\ rows' = ins.rows
                /\ resp' = Response("upload", 500, [NoBody EXCEPT !.error = Val(ins.error)])
           ELSE IF ins.cancellations # <<>> /\ "cancelled" \notin columns
           THEN /\ rows' = ins.rows
                /\ resp' = Response("upload", 500, [NoBody EXCEPT !.error = "no such column: cancelled"])
           ELSE /\ rows' = CancelAll(ins.rows, ins.cancellations)
                /\ resp' = Response("upload", 200, NoBody)
    /\ UNCHANGED <<tableExists, columns, userVersion>>

\* POST /orders/:number/etv without the test etvFactor < 0
PostEtvOfAnyNumber(number, body) ==
    /\ tableExists
    /\ IF body.type # "null" /\ body.type # "number"
       THEN /\ resp' = Response("etv", 400, [NoBody EXCEPT !.error = "Invalid etvFactor"])
            /\ UNCHANGED rows
       ELSE /\ rows' = setETVFactorForOrder(rows, number,
                                            IF body.type = "null" THEN Null ELSE Some(body.v))
            /\ resp' = Response("etv", 200, NoBody)
    /\ UNCHANGED <<tableExists, columns, userVersion>>

\* POST /orders/:number/etv
PostEtv(number, body) ==
    /\ tableExists
    /\ IF body.type # "null" /\ (body.type # "number" \/ body.v < 0)
       THEN /\ resp' = Response("etv", 400, [NoBody EXCEPT !.error = "Invalid etvFactor"])
            /\ UNCHANGED rows
       ELSE /\ rows' = setETVFactorForOrder(rows, number,
                                            IF body.type = "null" THEN Null ELSE Some(body.v))
            /\ resp' = Response("etv", 200, NoBody)
    /\ UNCHANGED <<tableExists, columns, userVersion>>

\* POST /orders/:number/etv-reason
PostEtvReason(number, body) ==
    /\ tableExists
    /\ IF body.type # "string" \/ Len(body.v) > MaxReasonLength
       THEN /\ resp' = Response("etv-reason", 400, [NoBody EXCEPT !.error = "Invalid reason"])
            /\ UNCHANGED rows
       ELSE /\ rows' = setETVReasonForOrder(rows, number, body.v)
            /\ resp' = Response("etv-reason", 200, NoBody)
    /\ UNCHANGED <<tableExists, columns, userVersion>>

\* POST /orders/:number/notes
PostNotes(number, body) ==
    /\ tableExists
    /\ IF body.type # "string" \/ Len(body.v) > MaxNotesLength
       THEN /\ resp' = Response("notes", 400, [NoBody EXCEPT !.error = "Invalid notes"])
            /\ UNCHANGED rows
       ELSE /\ rows' = setNotesForOrder(rows, number, body.v)
            /\ resp' = Response("notes", 200, NoBody)
    /\ UNCHANGED <<tableExists, columns, userVersion>>

\* GET /orders: the count without limit and offset, then the page; the
\* response is kept with the query it answers
GetOrdersRoute(query) ==
    /\ tableExists
    /\ LET variables == Options(query.filter = "cancelled", query.filter = "adjusted",
                                safeParseInt(query.limit), safeParseInt(query.offset),
                                IF query.s = <<>> THEN Null ELSE Some(query.s), Null,
                                FALSE, safeQsString(query.sort), safeQsString(query.dir), FALSE)
           counting == [variables EXCEPT !.limit = Null, !.offset = Null, !.countOnly = TRUE]
       IN  \E total \in getOrders(columns, rows, counting) :
             IF total.kind = "throw"
             THEN resp' = Response("orders", 500,
                                   [NoBody EXCEPT !.query = query, !.error = total.error])
             ELSE \E orders \in getOrders(columns, rows, variables) :
                    IF orders.kind = "throw"
                    THEN resp' = Response("orders", 500,
                                          [NoBody EXCEPT !.query = query, !.error = orders.error])
                    ELSE resp' = Response("orders", 200,
                                          [NoBody EXCEPT !.query = query,
                                                         !.orders = orders.orders,
                                                         !.total = total.count])
    /\ UNCHANGED <<tableExists, columns, userVersion, rows>>

\* GET /report-data/:year; the two per-date maps of the body are left out
GetReportData(year) ==
    /\ tableExists
    /\ \E res \in getOrders(columns, rows,
                            Options(FALSE, FALSE, Null, Null, Null, year, FALSE, Null, Null, TRUE)) :
         IF res.kind = "throw"
         THEN resp' = Response("report-data", 500, [NoBody EXCEPT !.error = res.error])
         ELSE LET ordersForYear == res.orders
              IN  resp' = Response("report-data", 200,
                                   [NoBody EXCEPT !.year = year,
                                                  !.totalEtv = SumEtv(ordersForYear),
                                                  !.totalAdjustedEtv = SumAdjustedEtv(ordersForYear),
                                                  !.orderCount = Len(ordersForYear),
                                                  !.monthly = getMonthlyBreakdown(ordersForYear)])
    /\ UNCHANGED <<tableExists, columns, userVersion, rows>>

Next ==
    \/ Listen
    \/ \E sheet \in Sheets : Upload(sheet)
    \/ \E number \in EtvFactorNumbers, body \in EtvFactorBodies : PostEtv(number, body)
    \/ \E number \in ReasonNumbers, body \in ReasonBodies : PostEtvReason(number, body)
    \/ \E number \in NotesNumbers, body \in NotesBodies : PostNotes(number, body)
    \/ \E query \in OrdersQueries : GetOrdersRoute(query)
    \/ \E year \in ReportYears : GetReportData(year)

\* the process of index.js, which never calls migrate
Spec == Init /\ [][Next]_vars

(***************************************************************************)
(* migrate                                                                 *)
(***************************************************************************)
TARGET_VERSION == 2

\* the statements of the migration, in order; one of them may fail
MigrationSteps == <<"BEGIN", "DROP COLUMN cancelled", "ADD COLUMN cancelledAt", "PRAGMA user_version", "COMMIT">>

\* the database a transaction works on
Database(cols, rws, version) == [columns |-> cols, rows |-> rws, userVersion |-> version]

\* PRAGMA user_version as migrate reads it
CurrentVersionIsOne(version) == 1

\* db.prepare('PRAGMA user_version').get(): the stored marker
CurrentVersion(version) == version

\* ALTER TABLE orders DROP COLUMN cancelled: every row loses the value
DropCancelled(db) ==
    [db EXCEPT !.columns = @ \ {"cancelled"},
               !.rows = [n \in DOMAIN @ |-> [@[n] EXCEPT !.cancelled = Null]]]

\* ADD COLUMN cancelledAt TEXT DEFAULT CURRENT_TIMESTAMP: every row gets a time
AddCancelledAtNow(db) ==
    [db EXCEPT !.columns = @ \cup {"cancelledAt"},
               !.rows = [n \in DOMAIN @ |->
                           [@[n] EXCEPT !.cancelledAt = Some(<<2024, 1, 1, 0, 0, 0, 0>>)]]]

\* ALTER TABLE orders ADD COLUMN cancelledAt TEXT: NULL in every row
AddCancelledAt(db) ==
    [db EXCEPT !.columns = @ \cup {"cancelledAt"},
               !.rows = [n \in DOMAIN @ |-> [@[n] EXCEPT !.cancelledAt = Null]]]

\* the statement of a step run inside the transaction; BEGIN and COMMIT
\* change no content
ApplyStep(db, step) ==
    CASE MigrationSteps[step] = "DROP COLUMN cancelled" -> DropCancelled(db)
      [] MigrationSteps[step] = "ADD COLUMN cancelledAt" -> AddCancelledAt(db)
      [] MigrationSteps[step] = "PRAGMA user_version" -> [db EXCEPT !.userVersion = 2]
      [] OTHER -> db

\* the step throws: it is the one chosen to fail, or it drops a column the
\* table has not, or adds one it has
StepFails(db, step, failed) ==
    \/ step = failed
    \/ MigrationSteps[step] = "DROP COLUMN cancelled" /\ "cancelled" \notin db.columns
    \/ MigrationSteps[step] = "ADD COLUMN cancelledAt" /\ "cancelledAt" \in db.columns

\* a ROLLBACK that leaves the changes of the statements that ran
RollbackKeepsChanges(before, db) == db

\* db.exec('ROLLBACK'): the database as it was at BEGIN
Rollback(before, db) == before

RECURSIVE RunSteps(_, _, _, _)
\* the statements from step on, inside the transaction begun on before:
\* [db, failed]
RunSteps(before, db, step, failed) ==
    IF step > Len(MigrationSteps) THEN [db |-> db, failed |-> FALSE]
    ELSE IF StepFails(db, step, failed) THEN [db |-> Rollback(before, db), failed |-> TRUE]
    ELSE RunSteps(before, ApplyStep(db, step), step + 1, failed)

\* migrate(db) on the opened database.  failed is the step that fails, 0 for
\* none.  A failure after BEGIN is rolled back and logged; when BEGIN itself
\* fails the ROLLBACK of the handler throws.
Migrate(failed) ==
    /\ tableExists
    /\ LET currentVersion == CurrentVersion(userVersion)
       IN  IF ~(currentVersion < TARGET_VERSION /\ currentVersion < 2)
           THEN /\ resp' = Response("migrate", 0, NoBody)
                /\ UNCHANGED <<columns, userVersion, rows>>
           ELSE IF failed = 1
           THEN /\ resp' = Response("migrate", 500,
                                    [NoBody EXCEPT !.error = "cannot rollback - no transaction is active"])
                /\ UNCHANGED <<columns, userVersion, rows>>
           ELSE LET before == Database(columns, rows, userVersion)
                    run == RunSteps(before, before, 2, failed)
                IN  /\ columns' = run.db.columns
                    /\ rows' = run.db.rows
                    /\ userVersion' = run.db.userVersion
                    /\ resp' = Response("migrate", 0,
                                        [NoBody EXCEPT !.error =
                                           IF run.failed THEN "Migration failed, changes rolled back"
                                           ELSE ""])
    /\ UNCHANGED tableExists

NextMigrate ==
    \/ Next
    \/ \E failed \in 0..Len(MigrationSteps) : Migrate(failed)

\* the process with migrate(db) called on the opened database
SpecMigrate == Init /\ [][NextMigrate]_vars

(***************************************************************************)
(* The options the properties range over                                   *)
(***************************************************************************)
Optional(S) == {Null} \cup {Some(x) : x \in S}

\* the options that select rows: every combination of the five filters
FilterOptions ==
    {Options(c, na, Null, Null, s, y, FALSE, Null, Null, bd) :
        c \in BOOLEAN, na \in BOOLEAN, bd \in BOOLEAN, y \in {Null, Some(2024)},
        s \in {Null, Some(<<"b">>), Some(Date20241231)}}

\* the largest limit and offset the properties try
MaxPage == 2

Pages == Optional(0..MaxPage)

CountOnly(o) == [o EXCEPT !.countOnly = TRUE]

\* the order numbers of a result in row mode
NumbersOf(orders) == {orders[i].number : i \in 1..Len(orders)}

(***************************************************************************)
(* C1.  For every stored table and every combination of cancelled,         *)
(* nonAdjustedOnly, year, byDelivered and search, getOrders with countOnly *)
(* returns the number of rows getOrders returns without it (no limit, no   *)
(* offset); the one call throws exactly when the other does.               *)
(***************************************************************************)
CountEqualsRows ==
    \A o \in FilterOptions :
      \A c \in getOrders(columns, rows, CountOnly(o)), r \in getOrders(columns, rows, o) :
        IF r.kind = "throw" THEN c.kind = "throw"
        ELSE c.kind = "count" /\ r.kind = "rows" /\ c.count = Len(r.orders)

\* GET /orders without limit and offset answered with three orders and the total 3
CountEqualsRowsWitness ==
    /\ resp.req = "orders"
    /\ resp.status = 200
    /\ resp.body.query.limit = <<>>
    /\ resp.body.query.offset = <<>>
    /\ resp.body.total = 3
    /\ Len(resp.body.orders) = 3

(***************************************************************************)
(* C2.  With countOnly, getOrders ignores limit and offset: whatever their *)
(* values (limit 0 and offset 1 or more among them) it returns what it     *)
(* returns when both are absent.  The statement as claimed; the code does  *)
(* not meet it.                                                            *)
(***************************************************************************)
CountIgnoresLimitAndOffset ==
    tableExists =>
      \A o \in FilterOptions, limit \in Pages, offset \in Pages :
        getOrders(columns, rows, [CountOnly(o) EXCEPT !.limit = limit, !.offset = offset])
          = getOrders(columns, rows, CountOnly(o))

(***************************************************************************)
(* C3.  On every table that uploads and point updates leave, the other     *)
(* options being equal: cancelled = false returns exactly the stored rows  *)
(* that pass the other filters and are not cancelled, cancelled = true     *)
(* exactly those that are cancelled; the two results share no row and      *)
(* together hold every stored row that passes the other filters.           *)
(***************************************************************************)
CancelledPartitions ==
    tableExists =>
    \A o \in {f \in FilterOptions : ~f.cancelled} :
      LET keyword == Keyword(o)
          startDate == StartDate(o)
          endDate == EndDate(o)
          \* the stored rows that pass every filter of o but the one on cancellation
          others == {n \in DOMAIN rows :
                       Where(rows[n], [o EXCEPT !.cancelled = (rows[n].cancelled = Some(1))],
                             keyword, startDate, endDate)}
      IN  \A a \in getOrders(columns, rows, [o EXCEPT !.cancelled = FALSE]),
             b \in getOrders(columns, rows, [o EXCEPT !.cancelled = TRUE]) :
            /\ a.kind = "rows"
            /\ b.kind = "rows"
            /\ \A i \in 1..Len(a.orders) : ~a.orders[i].cancelled
            /\ \A i \in 1..Len(b.orders) : b.orders[i].cancelled
            /\ NumbersOf(a.orders) = {n \in others : rows[n].cancelled = Some(0)}
            /\ NumbersOf(b.orders) = {n \in others : rows[n].cancelled = Some(1)}
            /\ NumbersOf(a.orders) \cap NumbersOf(b.orders) = {}
            /\ NumbersOf(a.orders) \cup NumbersOf(b.orders) = others

\* GET /orders?filter=cancelled answered with the one cancelled order of a
\* table that holds an order that is not cancelled too
CancelledPartitionsWitness ==
    /\ resp.req = "orders"
    /\ resp.status = 200
    /\ resp.body.query.filter = "cancelled"
    /\ Len(resp.body.orders) = 1
    /\ resp.body.orders[1].cancelled
    /\ \E n \in DOMAIN rows : rows[n].cancelled = Some(0)

(***************************************************************************)
(* C4.  Once migrate has brought the database to version 2, getOrders      *)
(* still returns rows for every combination of the filters, and they are   *)
(* the rows without cancelledAt when cancelled is false and the rows with  *)
(* it when cancelled is true.  The statement as claimed; the code does not *)
(* meet it.                                                                *)
(***************************************************************************)
FilterSurvivesMigration ==
    userVersion = TARGET_VERSION =>
      \A o \in FilterOptions :
        \A res \in getOrders(columns, rows, o) :
          /\ res.kind = "rows"
          /\ NumbersOf(res.orders) \subseteq
               {n \in DOMAIN rows : IsNull(rows[n].cancelledAt) = ~o.cancelled}

(***************************************************************************)
(* C5.  With a year and a search that is no date, getOrders returns        *)
(* exactly the rows that pass the other filters and whose date on the      *)
(* chosen axis lies between 1 January 00:00:00.000 and 31 December         *)
(* 23:59:59.999 of that year.  The statement as claimed; the code does not *)
(* meet it.                                                                *)
(***************************************************************************)
YearStart(y) == <<y, 1, 1, 0, 0, 0, 0>>

YearEnd(y) == <<y, 12, 31, 23, 59, 59, 999>>

YearBoundIsWholeYear ==
    tableExists =>
      \A o \in {f \in FilterOptions : ~IsNull(f.year) /\ f.search # Some(Date20241231)} :
        \A res \in getOrders(columns, rows, o) :
          /\ res.kind = "rows"
          /\ NumbersOf(res.orders) =
               {n \in Selected(rows, [o EXCEPT !.year = Null]) :
                  /\ ~IsNull(DateAxis(rows[n], o))
                  /\ IsoLeq(YearStart(Val(o.year)), Val(DateAxis(rows[n], o)))
                  /\ IsoLeq(Val(DateAxis(rows[n], o)), YearEnd(Val(o.year)))}

(***************************************************************************)
(* C6.  With a search of the shape YYYY-MM-DD that names a calendar day,   *)
(* getOrders returns exactly the rows of the requested cancellation state  *)
(* (and, under nonAdjustedOnly, of that kind) whose date on the chosen     *)
(* axis lies within that day, 00:00:00.000 through 23:59:59.999, whatever  *)
(* their number, asin and product; and it returns the same for every year  *)
(* passed along, absent, the day's own or another.                         *)
(***************************************************************************)
SearchedDays == {Date20241231, Date20240615}

\* year, month and day a search string names
DayOf(s) == IF s = Date20241231 THEN <<2024, 12, 31>> ELSE <<2024, 6, 15>>

DateSearchOptions ==
    {Options(c, na, Null, Null, Some(s), Null, FALSE, Null, Null, bd) :
        c \in BOOLEAN, na \in BOOLEAN, bd \in BOOLEAN, s \in SearchedDays}

DateSearchSupersedesYear ==
    tableExists =>
      \A o \in DateSearchOptions :
        LET day == DayOf(Val(o.search))
            withoutYear == getOrders(columns, rows, o)
        IN  /\ \A y \in {Some(MinYear + 1), Some(MinYear + 2)} :
                 getOrders(columns, rows, [o EXCEPT !.year = y]) = withoutYear
            /\ \A res \in withoutYear :
                 /\ res.kind = "rows"
                 /\ NumbersOf(res.orders) =
                      {n \in DOMAIN rows :
                         /\ rows[n].cancelled = Some(IF o.cancelled THEN 1 ELSE 0)
                         /\ o.nonAdjustedOnly => NonAdjusted(rows[n])
                         /\ ~IsNull(DateAxis(rows[n], o))
                         /\ IsoLeq(day \o <<0, 0, 0, 0>>, Val(DateAxis(rows[n], o)))
                         /\ IsoLeq(Val(DateAxis(rows[n], o)), day \o <<23, 59, 59, 999>>)}

\* GET /orders?s=2024-12-31 answered with the two orders of that day and no
\* other, an order of another day of the year being stored
DateSearchSupersedesYearWitness ==
    /\ resp.req = "orders"
    /\ resp.status = 200
    /\ resp.body.query.s = Date20241231
    /\ NumbersOf(resp.body.orders) = {<<"7">>, <<"8">>}
    /\ <<"9">> \in DOMAIN rows

(***************************************************************************)
(* C7.  A search of the shape YYYY-MM-DD that names no calendar day (month *)
(* 00 or 13, day 00 or 32) makes getOrders throw 'Invalid date' and return *)
(* no rows.  The statement as claimed; the code does not meet it.          *)
(***************************************************************************)
NoCalendarDays == {Date20240010, Date20240600, Date20241301, Date20240532}

InvalidDateIsRefused ==
    tableExists =>
      \A s \in NoCalendarDays, bd \in BOOLEAN :
        \A res \in getOrders(columns, rows,
                             Options(FALSE, FALSE, Null, Null, Some(s), Null, FALSE, Null, Null, bd)) :
          res.kind = "throw" /\ res.error = "Invalid date"

(***************************************************************************)
(* C8.  Every order getOrders returns carries adjustedEtv, equal to etv    *)
(* times etvFactor, or to 0 without an etvFactor, whichever the sort       *)
(* column; and the adjusted totals of the yearly report and of each of its *)
(* months are the sums of that value over the report's orders.  The        *)
(* statement as claimed; the code does not meet it.                        *)
(***************************************************************************)
SortColumns == {Null, Some("etv"), Some("etvFactor"), Some("adjustedEtv")}

\* etv * (etvFactor ?? 0) of an order, in hundredths
ClaimedAdjustedEtv(order) ==
    order.etv * (IF IsNull(order.etvFactor) THEN 0 ELSE Val(order.etvFactor))

RECURSIVE SumClaimedAdjustedEtv(_)
SumClaimedAdjustedEtv(os) ==
    IF os = <<>> THEN 0 ELSE ClaimedAdjustedEtv(Head(os)) + SumClaimedAdjustedEtv(Tail(os))

\* the adjusted totals of the report answered last are sums of etv * (etvFactor ?? 0)
ReportSumsClaimedAdjustedEtv ==
    (resp.req = "report-data" /\ resp.status = 200) =>
      \E res \in getOrders(columns, rows,
                           Options(FALSE, FALSE, Null, Null, Null, resp.body.year, FALSE, Null, Null, TRUE)) :
        /\ resp.body.totalAdjustedEtv = SumClaimedAdjustedEtv(res.orders)
        /\ \A m \in 1..12 :
             resp.body.monthly[m].totalAdjustedEtv =
               SumClaimedAdjustedEtv(SelectSeq(res.orders, LAMBDA o : GetMonth(o.orderedAt) = m - 1))

\* the orders of getOrders carry adjustedEtv
OrdersCarryAdjustedEtv ==
    tableExists =>
      \A sort \in SortColumns :
        \A res \in getOrders(columns, rows,
                             Options(FALSE, FALSE, Null, Null, Null, Null, FALSE, sort, Null, FALSE)) :
          /\ res.kind = "rows"
          /\ \A i \in 1..Len(res.orders) :
               /\ "adjustedEtv" \in DOMAIN res.orders[i]
               /\ res.orders[i].adjustedEtv = ClaimedAdjustedEtv(res.orders[i])

AdjustedEtvEverywhere == ReportSumsClaimedAdjustedEtv /\ OrdersCarryAdjustedEtv

(***************************************************************************)
(* C9.  In row mode, for every limit and offset, present or absent,        *)
(* getOrders returns the matching rows in sort order without the first     *)
(* offset of them and cut to limit of them; an absent offset skips none,   *)
(* an absent limit cuts nothing.  The statement as claimed; the code does  *)
(* not meet it.                                                            *)
(***************************************************************************)
\* q without its first offset elements, cut to limit elements
SkipAndTake(q, limit, offset) ==
    LET skipped == IF IsNull(offset) THEN 0 ELSE Val(offset)
        rest == IF skipped >= Len(q) THEN <<>> ELSE SubSeq(q, skipped + 1, Len(q))
    IN  IF IsNull(limit) \/ Val(limit) >= Len(rest) THEN rest ELSE SubSeq(rest, 1, Val(limit))

PaginationSkipsAndTakes ==
    tableExists =>
      \A sort \in SortColumns, limit \in Pages, offset \in Pages :
        LET o == Options(FALSE, FALSE, Null, Null, Null, Null, FALSE, sort, Null, FALSE)
        IN  \A res \in getOrders(columns, rows, [o EXCEPT !.limit = limit, !.offset = offset]) :
              /\ res.kind = "rows"
              /\ \E all \in getOrders(columns, rows, o) :
                   res.orders = SkipAndTake(all.orders, limit, offset)

(***************************************************************************)
(* C10.  With nonAdjustedOnly, getOrders returns exactly those rows of the *)
(* result without it that have an etv other than 0 and either no           *)
(* etvFactor, or an etvFactor other than 0.2 and 1 and no etvReason;       *)
(* without nonAdjustedOnly the result holds every row that passes the      *)
(* other filters, whatever these three columns hold.                       *)
(***************************************************************************)
\* the restriction as the claim words it; etvFactor is held in hundredths
Unadjusted(r) ==
    /\ r.etv # 0
    /\ \/ r.etvFactor = Null
       \/ /\ r.etvFactor # Null
          /\ r.etvFactor \notin {Some(20), Some(100)}
          /\ r.etvReason = Null

NonAdjustedOnlyRestricts ==
    tableExists =>
      \A o \in {f \in FilterOptions : ~f.nonAdjustedOnly} :
        LET keyword == Keyword(o)
            startDate == StartDate(o)
            endDate == EndDate(o)
            \* the stored rows that pass the other filters
            others == {n \in DOMAIN rows : Where(rows[n], o, keyword, startDate, endDate)}
        IN  \A off \in getOrders(columns, rows, o),
               on \in getOrders(columns, rows, [o EXCEPT !.nonAdjustedOnly = TRUE]) :
              /\ off.kind = "rows"
              /\ on.kind = "rows"
              /\ NumbersOf(off.orders) = others
              /\ NumbersOf(on.orders) = {n \in others : Unadjusted(rows[n])}

\* GET /orders?filter=adjusted answered with an order that has an etvFactor of
\* 2.5 and no reason, while the table holds an order the restriction leaves
\* out for its reason and one it leaves out for its etv of 0
NonAdjustedOnlyRestrictsWitness ==
    /\ resp.req = "orders"
    /\ resp.status = 200
    /\ resp.body.query.filter = "adjusted"
    /\ \E i \in 1..Len(resp.body.orders) :
         resp.body.orders[i].etvFactor = Some(250) /\ resp.body.orders[i].etvReason = Null
    /\ \E n \in DOMAIN rows : rows[n].cancelled = Some(0) /\ rows[n].etv = 0
    /\ \E n \in DOMAIN rows :
         /\ rows[n].cancelled = Some(0)
         /\ rows[n].etv # 0
         /\ rows[n].etvFactor = Some(50)
         /\ rows[n].etvReason # Null

(***************************************************************************)
(* C11.  maybeInsertOrder called with an order whose number is stored      *)
(* leaves the table as it is: the stored row keeps every column, its       *)
(* etvFactor, etvReason, notes and cancellation among them, and no row is  *)
(* added, whatever the new order carries.                                  *)
(***************************************************************************)
\* the delivery lines of the model: two for the number 7, with different
\* asin, product, dates, etv and etvFactor
DeliveryLines == {Row7, Row7Again, Row8, Row9, Row9Unshipped}

InsertIsIdempotent ==
    \A line \in DeliveryLines :
      line.number \in DOMAIN rows => maybeInsertOrder(columns, rows, line).rows = rows

\* the order 7 is stored with a factor of 2.5 set by POST and cancelled, and
\* maybeInsertOrder runs without an error on the two lines of that number,
\* one of which carries other values than the stored row
InsertIsIdempotentWitness ==
    /\ <<"7">> \in DOMAIN rows
    /\ rows[<<"7">>].etvFactor = Some(250)
    /\ rows[<<"7">>].cancelled = Some(1)
    /\ \A line \in {Row7, Row7Again} : maybeInsertOrder(columns, rows, line).error = Null
    /\ \E line \in {Row7, Row7Again} : rows[<<"7">>].product # line.product

(***************************************************************************)
(* C12.  An upload of a delivery line followed by a CANCELLATION line of   *)
(* the same number, the number not being stored before, leaves exactly one *)
(* row of that number: it is cancelled and has the etv and the product of  *)
(* the delivery line.  The other rows of the table are kept.               *)
(***************************************************************************)
\* the uploaded sheets of that shape
DeliveryThenCancellation == {<<Row7, Cancel7>>, <<Row8, Cancel8>>}

CancellationAfterDelivery ==
    [][\A sheet \in DeliveryThenCancellation :
         (Upload(sheet) /\ sheet[1].number \notin DOMAIN rows) =>
           /\ DOMAIN rows' = DOMAIN rows \cup {sheet[1].number}
           /\ rows'[sheet[1].number].number = sheet[1].number
           /\ rows'[sheet[1].number].cancelled = Some(1)
           /\ rows'[sheet[1].number].etv = sheet[1].etv
           /\ rows'[sheet[1].number].product = sheet[1].product]_vars

\* an upload has left the order 8 as the only row, cancelled, with the
\* product and the etv of its delivery line
CancellationAfterDeliveryWitness ==
    /\ resp.req = "upload"
    /\ resp.status = 200
    /\ DOMAIN rows = {<<"8">>}
    /\ rows[<<"8">>].cancelled = Some(1)
    /\ rows[<<"8">>].product = Row8.product
    /\ rows[<<"8">>].etv = Row8.etv

(***************************************************************************)
(* C13.  No step of the process deletes a row or changes the number, asin, *)
(* product, orderedAt or etv of a stored row, and each row is stored under *)
(* its own number, one row per number.                                     *)
(***************************************************************************)
InsertedColumnsAreKept ==
    [][/\ DOMAIN rows \subseteq DOMAIN rows'
       /\ \A n \in DOMAIN rows :
            /\ rows'[n].number = rows[n].number
            /\ rows'[n].asin = rows[n].asin
            /\ rows'[n].product = rows[n].product
            /\ rows'[n].orderedAt = rows[n].orderedAt
            /\ rows'[n].etv = rows[n].etv
       /\ \A n \in DOMAIN rows' : rows'[n].number = n]_vars

\* the three orders are stored; 7 has had its factor set and has been
\* cancelled, 8 has a reason and 9 has notes, and each has the product of the
\* line that inserted it
InsertedColumnsAreKeptWitness ==
    /\ DOMAIN rows = {<<"7">>, <<"8">>, <<"9">>}
    /\ rows[<<"7">>].etvFactor = Some(20)
    /\ rows[<<"7">>].cancelled = Some(1)
    /\ rows[<<"7">>].product \in {Row7.product, Row7Again.product}
    /\ rows[<<"8">>].etvReason # Null
    /\ rows[<<"8">>].product = Row8.product
    /\ rows[<<"9">>].notes # Null
    /\ rows[<<"9">>].product = Row9.product

(***************************************************************************)
(* C14.  A point update that passes validation writes its own column of    *)
(* the row of its number and nothing else: the other columns of that row   *)
(* and the other rows are kept, no row is added or removed; for a number   *)
(* that is not stored the table is unchanged.  Either way it answers       *)
(* without an error.                                                       *)
(***************************************************************************)
\* the step has written at most the column col of the row number, and has
\* answered 200
OnlyColumnWritten(number, col) ==
    /\ resp'.status = 200
    /\ DOMAIN rows' = DOMAIN rows
    /\ \A n \in DOMAIN rows :
         IF n = number
         THEN \A c \in DOMAIN rows[n] \ {col} : rows'[n][c] = rows[n][c]
         ELSE rows'[n] = rows[n]
    /\ number \notin DOMAIN rows => rows' = rows

PointUpdatesAreLocal ==
    [][/\ \A number \in EtvFactorNumbers, body \in EtvFactorBodies :
            (PostEtv(number, body) /\ resp'.status # 400) => OnlyColumnWritten(number, "etvFactor")
       /\ \A number \in ReasonNumbers, body \in ReasonBodies :
            (PostEtvReason(number, body) /\ resp'.status # 400) => OnlyColumnWritten(number, "etvReason")
       /\ \A number \in NotesNumbers, body \in NotesBodies :
            (PostNotes(number, body) /\ resp'.status # 400) => OnlyColumnWritten(number, "notes")]_vars

\* POST notes has answered 200 on a table of three orders: 9 has the notes,
\* 7 and 8 have none
PointUpdatesAreLocalWitness ==
    /\ resp.req = "notes"
    /\ resp.status = 200
    /\ DOMAIN rows = {<<"7">>, <<"8">>, <<"9">>}
    /\ rows[<<"9">>].notes = Some(<<"n">>)
    /\ rows[<<"7">>].notes = Null
    /\ rows[<<"8">>].notes = Null

(***************************************************************************)
(* C15.  A point update whose body fails validation (an etvFactor that is  *)
(* neither null nor a number, or is negative; a reason or notes that are   *)
(* no string or are longer than 255 or 2000 characters) is answered 400    *)
(* and leaves the table unchanged; an etvFactor that is null or a number   *)
(* of 0 or more, above 1 too, is answered 200 and stored in the row of the *)
(* number.                                                                 *)
(***************************************************************************)
ValidationGuardsUpdates ==
    [][/\ \A number \in EtvFactorNumbers, body \in EtvFactorBodies :
            PostEtv(number, body) =>
              IF body.type = "null" \/ (body.type = "number" /\ body.v >= 0)
              THEN /\ resp'.status = 200
                   /\ number \in DOMAIN rows =>
                        rows'[number].etvFactor = (IF body.type = "null" THEN Null ELSE Some(body.v))
              ELSE resp'.status = 400 /\ resp'.body.error # "" /\ rows' = rows
       /\ \A number \in ReasonNumbers, body \in ReasonBodies :
            (PostEtvReason(number, body) /\ (body.type # "string" \/ Len(body.v) > 255)) =>
              resp'.status = 400 /\ resp'.body.error # "" /\ rows' = rows
       /\ \A number \in NotesNumbers, body \in NotesBodies :
            (PostNotes(number, body) /\ (body.type # "string" \/ Len(body.v) > 2000)) =>
              resp'.status = 400 /\ resp'.body.error # "" /\ rows' = rows]_vars

\* POST etv has answered 200 and the order 7 holds the factor 2.5
ValidationGuardsUpdatesWitness ==
    /\ resp.req = "etv"
    /\ resp.status = 200
    /\ <<"7">> \in DOMAIN rows
    /\ rows[<<"7">>].etvFactor = Some(250)

(***************************************************************************)
(* C16.  Setting the etvReason of a stored order to the empty string       *)
(* stores NULL: getOrders then returns the order with an absent etvReason, *)
(* and with nonAdjustedOnly it returns the order whenever its etv is not 0 *)
(* and its etvFactor is absent or other than 0.2 and 1.                    *)
(***************************************************************************)
EmptyReason == [type |-> "string", v |-> <<>>]

EmptyReasonIsAbsent ==
    [][\A number \in ReasonNumbers :
         (PostEtvReason(number, EmptyReason) /\ number \in DOMAIN rows) =>
           LET row == rows'[number]
               o == Options(row.cancelled = Some(1), FALSE, Null, Null, Null, Null, FALSE,
                            Null, Null, FALSE)
           IN  /\ row.etvReason = Null
               /\ \A res \in getOrders(columns', rows', o) :
                    /\ res.kind = "rows"
                    /\ \E i \in 1..Len(res.orders) :
                         res.orders[i].number = number /\ res.orders[i].etvReason = Null
               /\ \A res \in getOrders(columns', rows', [o EXCEPT !.nonAdjustedOnly = TRUE]) :
                    /\ res.kind = "rows"
                    /\ number \in NumbersOf(res.orders) <=>
                         (row.etv # 0 /\ row.etvFactor \notin {Some(20), Some(100)})]_vars

\* POST etv-reason has answered 200 and the order 8, with an etv that is not
\* 0 and a factor of 0.5, has no reason
EmptyReasonIsAbsentWitness ==
    /\ resp.req = "etv-reason"
    /\ resp.status = 200
    /\ <<"8">> \in DOMAIN rows
    /\ rows[<<"8">>].etvReason = Null
    /\ rows[<<"8">>].etv # 0
    /\ rows[<<"8">>].etvFactor = Some(50)

(***************************************************************************)
(* C17.  getMonthlyBreakdown returns 12 buckets, numbered 1 to 12 in       *)
(* order; the bucket of a month counts the orders whose orderedAt lies in  *)
(* that month and sums their etv, 0 and 0 for a month without orders; the  *)
(* counts add up to the number of orders and the sums to their etv total.  *)
(* So it is for all orders that are not cancelled and for the orders of    *)
(* every yearly report.                                                    *)
(***************************************************************************)
RECURSIVE SumOfCounts(_, _)
SumOfCounts(monthly, m) ==
    IF m = 0 THEN 0 ELSE monthly[m].orderCount + SumOfCounts(monthly, m - 1)

RECURSIVE SumOfEtvs(_, _)
SumOfEtvs(monthly, m) ==
    IF m = 0 THEN 0 ELSE monthly[m].totalEtv + SumOfEtvs(monthly, m - 1)

RECURSIVE EtvOfRows(_, _)
\* the etv total of the rows numbered in S, in hundredths
EtvOfRows(rws, S) ==
    IF S = {} THEN 0
    ELSE LET n == CHOOSE x \in S : TRUE
         IN  100 * rws[n].etv + EtvOfRows(rws, S \ {n})

MonthlyBucketsAddUp ==
    /\ tableExists =>
         \A res \in getOrders(columns, rows,
                              Options(FALSE, FALSE, Null, Null, Null, Null, FALSE, Null, Null, TRUE)) :
           LET monthly == getMonthlyBreakdown(res.orders)
               inMonth(m) == {n \in NumbersOf(res.orders) : rows[n].orderedAt[2] = m}
           IN  /\ res.kind = "rows"
               /\ DOMAIN monthly = 1..12
               /\ \A m \in 1..12 :
                    /\ monthly[m].month = m
                    /\ monthly[m].orderCount = Cardinality(inMonth(m))
                    /\ monthly[m].totalEtv = EtvOfRows(rows, inMonth(m))
               /\ SumOfCounts(monthly, 12) = Len(res.orders)
               /\ SumOfEtvs(monthly, 12) = EtvOfRows(rows, NumbersOf(res.orders))
    /\ (resp.req = "report-data" /\ resp.status = 200) =>
         /\ DOMAIN resp.body.monthly = 1..12
         /\ SumOfCounts(resp.body.monthly, 12) = resp.body.orderCount
         /\ SumOfEtvs(resp.body.monthly, 12) = resp.body.totalEtv

\* a report of three orders: one of June and two of December
MonthlyBucketsAddUpWitness ==
    /\ resp.req = "report-data"
    /\ resp.status = 200
    /\ resp.body.orderCount = 3
    /\ resp.body.monthly[6].orderCount = 1
    /\ resp.body.monthly[12].orderCount = 2
    /\ \A m \in (1..12) \ {6, 12} : resp.body.monthly[m].orderCount = 0

(***************************************************************************)
(* C18.  Whichever statement of the migration fails, or none, migrate      *)
(* leaves the database either exactly as it was, or without the column     *)
(* cancelled, with the column cancelledAt and with the version marker 2;   *)
(* and so the database is at every moment a whole version 1 or a whole     *)
(* version 2.                                                              *)
(***************************************************************************)
\* the schema and the marker of version 1, and of version 2
WholeV1(cols, version) ==
    "cancelled" \in cols /\ "cancelledAt" \notin cols /\ version < 2

WholeV2(cols, version) ==
    "cancelled" \notin cols /\ "cancelledAt" \in cols /\ version = 2

MigrationIsAtomic ==
    [][/\ \A failed \in 0..Len(MigrationSteps) :
            Migrate(failed) =>
              \/ UNCHANGED <<columns, rows, userVersion>>
              \/ WholeV2(columns', userVersion')
       /\ tableExists' => WholeV1(columns', userVersion') \/ WholeV2(columns', userVersion')]_vars

\* a migration has failed and was rolled back: the table of version 1 is
\* there with its cancelled order and the marker is 0
MigrationIsAtomicWitness ==
    /\ resp.req = "migrate"
    /\ resp.body.error = "Migration failed, changes rolled back"
    /\ WholeV1(columns, userVersion)
    /\ \E n \in DOMAIN rows : rows[n].cancelled = Some(1)

(***************************************************************************)
(* C19.  A migration that succeeds keeps every row: the numbers are the    *)
(* same, every column but cancelled and cancelledAt holds what it held,    *)
(* cancelledAt is NULL in every row, cancelled or not, the column          *)
(* cancelled is replaced by cancelledAt, and the version marker is 2.      *)
(***************************************************************************)
MigrationKeepsRows ==
    [][\A failed \in 0..Len(MigrationSteps) :
         (Migrate(failed) /\ userVersion < 2 /\ resp'.body.error = "") =>
           /\ userVersion' = 2
           /\ columns' = (columns \ {"cancelled"}) \cup {"cancelledAt"}
           /\ DOMAIN rows' = DOMAIN rows
           /\ \A n \in DOMAIN rows :
                /\ \A c \in DOMAIN rows[n] \ {"cancelled", "cancelledAt"} : rows'[n][c] = rows[n][c]
                /\ rows'[n].cancelledAt = Null]_vars

\* migrate has run without a failure on a table of three orders, one with a
\* reason and one with notes: the marker is 2 and no row has a cancelledAt
MigrationKeepsRowsWitness ==
    /\ resp.req = "migrate"
    /\ resp.body.error = ""
    /\ userVersion = 2
    /\ "cancelledAt" \in columns
    /\ DOMAIN rows = {<<"7">>, <<"8">>, <<"9">>}
    /\ rows[<<"8">>].etvReason # Null
    /\ rows[<<"9">>].notes # Null
    /\ \A n \in DOMAIN rows : rows[n].cancelledAt = Null

(***************************************************************************)
(* C20.  migrate on a database at version 2 leaves the columns, the rows   *)
(* and the marker as they are and attempts no migration, so none is logged *)
(* as failed; and no step of the process lowers the version marker.        *)
(***************************************************************************)
MigrateIsIdempotent ==
    [][/\ \A failed \in 0..Len(MigrationSteps) :
            (Migrate(failed) /\ userVersion = 2) =>
              /\ UNCHANGED <<columns, rows, userVersion>>
              /\ resp'.status = 0
              /\ resp'.body.error = ""
       /\ userVersion' >= userVersion]_vars

\* migrate has run on a database at version 2 that holds an order: an order
\* can only be stored before the migration, as the upload fails after it
MigrateIsIdempotentWitness ==
    /\ resp.req = "migrate"
    /\ resp.body.error = ""
    /\ userVersion = 2
    /\ rows # NoRows
    /\ \E n \in DOMAIN rows : rows[n].etvFactor = Some(250)

(***************************************************************************)
(* C21.  The migration has run before any handler reads or writes the      *)
(* table orders: when a request has been answered, the database has been   *)
(* brought to the target version.  The statement as claimed; the code does *)
(* not meet it.                                                            *)
(***************************************************************************)
\* the requests whose handlers read or write the table orders
StorageRequests == {"upload", "etv", "etv-reason", "notes", "orders", "report-data"}

MigrationRunsFirst ==
    resp.req \in StorageRequests => userVersion = TARGET_VERSION

(***************************************************************************)
(* C22.  migrate returns normally whichever statement fails, BEGIN         *)
(* TRANSACTION among them: the failure is rolled back and logged and no    *)
(* exception leaves migrate.  The statement as claimed; the code does not  *)
(* meet it.                                                                *)
(***************************************************************************)
MigrateNeverThrows ==
    resp.req = "migrate" =>
      /\ resp.status = 0
      /\ resp.body.error \in {"", "Migration failed, changes rolled back"}

(***************************************************************************)
(* C23.  An order that is cancelled stays cancelled: no upload, with the   *)
(* delivery line of the order or without, and no point update sets it      *)
(* back, and after every step getOrders with cancelled = false returns no  *)
(* order that was cancelled before the step.                               *)
(***************************************************************************)
CancellationIsMonotone ==
    [][LET cancelledBefore == {n \in DOMAIN rows : rows[n].cancelled = Some(1)}
       IN  cancelledBefore # {} =>
             /\ \A n \in cancelledBefore : n \in DOMAIN rows' /\ rows'[n].cancelled = Some(1)
             /\ \A res \in getOrders(columns', rows',
                                     Options(FALSE, FALSE, Null, Null, Null, Null, FALSE,
                                             Null, Null, FALSE)) :
                  res.kind = "rows" /\ NumbersOf(res.orders) \cap cancelledBefore = {}]_vars

\* the order 7 is cancelled, has a factor set by POST and a delivery line of
\* its number is inserted without an error; GET /orders has left it out
CancellationIsMonotoneWitness ==
    /\ <<"7">> \in DOMAIN rows
    /\ rows[<<"7">>].cancelled = Some(1)
    /\ rows[<<"7">>].etvFactor = Some(20)
    /\ maybeInsertOrder(columns, rows, Row7Again).error = Null
    /\ resp.req = "orders"
    /\ resp.status = 200
    /\ resp.body.query.filter = ""
    /\ <<"7">> \notin NumbersOf(resp.body.orders)

(***************************************************************************)
(* C24.  Within one upload the place of an order's CANCELLATION line does  *)
(* not matter: a sheet with the CANCELLATION line before the delivery line *)
(* leaves the table a sheet with the two lines the other way round leaves, *)
(* the order stored and cancelled; and a CANCELLATION line of a number     *)
(* that is neither stored nor in the sheet adds no row.                    *)
(***************************************************************************)
\* the sheets of one order, <<delivery first, cancellation first>>
BothWaysRound == {<<<<Row7, Cancel7>>, <<Cancel7, Row7>>>>, <<<<Row8, Cancel8>>, <<Cancel8, Row8>>>>}

CancellationPlaceIsFree ==
    [][/\ \A pair \in BothWaysRound :
            /\ Upload(pair[2]) => Upload(pair[1])
            /\ Upload(pair[1]) => Upload(pair[2])
            /\ Upload(pair[2]) =>
                 /\ pair[2][2].number \in DOMAIN rows'
                 /\ rows'[pair[2][2].number].cancelled = Some(1)
       /\ \A sheet \in {<<Cancel7>>, <<Cancel8>>, <<Cancel7, Cancel8>>} :
            Upload(sheet) =>
              /\ DOMAIN rows' = DOMAIN rows
              /\ resp'.status = 200]_vars

\* an upload has left the order 7 as the only row, cancelled, with the
\* product of its first delivery line
CancellationPlaceIsFreeWitness ==
    /\ resp.req = "upload"
    /\ resp.status = 200
    /\ DOMAIN rows = {<<"7">>}
    /\ rows[<<"7">>].cancelled = Some(1)
    /\ rows[<<"7">>].product = Row7.product
    /\ rows[<<"7">>].etvFactor = Null

(***************************************************************************)
(* C25.  An order without a deliveredAt is in no result of getOrders with  *)
(* byDelivered and a year or a date search, and so GET /report-data counts *)
(* no more orders than the delivered, not cancelled ones.                  *)
(* The statement as claimed; the code does not meet it.                    *)
(***************************************************************************)
\* the stored orders that were never delivered
Undelivered == {n \in DOMAIN rows : rows[n].deliveredAt = Null}

UndeliveredIsNeverReported ==
    /\ tableExists =>
         \A f \in FilterOptions :
           (f.byDelivered /\ (f.year # Null \/ f.search = Some(Date20241231))) =>
             \A res \in getOrders(columns, rows, f) :
               res.kind = "rows" => NumbersOf(res.orders) \cap Undelivered = {}
    /\ (resp.req = "report-data" /\ resp.status = 200) =>
         resp.body.orderCount <=
           Cardinality({n \in DOMAIN rows \ Undelivered : rows[n].cancelled = Some(0)})

\* the part on getOrders alone, which the code meets
UndeliveredIsOutOfBoundedResults ==
    tableExists =>
      \A f \in FilterOptions :
        (f.byDelivered /\ (f.year # Null \/ f.search = Some(Date20241231))) =>
          \A res \in getOrders(columns, rows, f) :
            res.kind = "rows" => NumbersOf(res.orders) \cap Undelivered = {}

====
